---- MODULE Spec2Model ----
(***************************************************************************)
(* A model of the ICMPv6 engine of src/core/net/icmp6.cpp (class Icmp):    *)
(* the handler registry, the echo subsystem, the inbound dispatcher and    *)
(* the checksum finalisation.  Every entry point runs to completion, so    *)
(* each one is a single action; `call' records what the entry point did    *)
(* (its inputs, its return value and its calls into the datagram layer,    *)
(* the handlers and the echo-reply callback) until the caller returns.     *)
(***************************************************************************)
EXTENDS Integers, Sequences, FiniteSets, TLC

\* ---------------------------------------------------------------- bounds
MaxPayload == 2       \* longest echo / error payload of an inbound message
NumHandlers == 2      \* IcmpHandler objects that exist
MaxOffset == 1        \* bytes in front of the ICMP header of an inbound message
MaxSends == 1         \* SendEchoRequest calls in Spec
MaxSeqCalls == 65537  \* SendEchoRequest calls in SpecSeq (past the wrap)
MaxFlipPayload == 1   \* longest payload of a message that gets a bit flipped

\* ------------------------------------------------------------- constants
NULL == 0
Uint16 == 65536
Uninit == -1          \* a byte of a buffer that nothing has written yet

kThreadError_None == "None"
kThreadError_Busy == "Busy"
kThreadError_NoBufs == "NoBufs"
kThreadError_Drop == "Drop"
kThreadError_NoRoute == "NoRoute"

kProtoIcmp6 == 58
kTypeDstUnreach == 1
kTypePacketToBig == 2
kTypeEchoRequest == 128
kTypeEchoReply == 129
kCodeDstUnreachNoRoute == 0

SizeofIcmpHeader == 8
SizeofIp6Header == 40
GetDataOffset == 8
GetChecksumOffset == 2

Handlers == 1 .. NumHandlers
\* (callback, context) pairs given to SetEchoReplyHandler
EchoReplyHandlers == {<<NULL, 1>>, <<1, 2>>, <<2, 1>>}

\* ------------------------------------------------------------- sequences
Fill(n, v) == [i \in 1 .. n |-> v]

Reverse(s) == [i \in 1 .. Len(s) |-> s[Len(s) + 1 - i]]

SeqRange(s) == {s[i] : i \in 1 .. Len(s)}

\* ------------------------------------------------------------- addresses
UnspecifiedAddr == Fill(16, 0)
PeerAddr == <<254, 128>> \o Fill(13, 0) \o <<1>>
UnicastAddr == <<254, 128>> \o Fill(13, 0) \o <<2>>
MulticastAddr == <<255, 2>> \o Fill(13, 0) \o <<1>>

IsMulticast(addr) == addr[1] = 255

\* memset(&messageInfo, 0, sizeof(messageInfo))
ZeroMessageInfo == [peer |-> UnspecifiedAddr, sock |-> UnspecifiedAddr, ifid |-> 0]

\* -------------------------------------------------------------- messages
\* A Message is its bytes and its offset; its length is Len(bytes).
NewMessage == [bytes |-> << >>, offset |-> 0]

GetLength(glMsg) == Len(glMsg.bytes)

\* Message::SetLength: the bytes gained are not initialised
SetLength(slMsg, slLength) ==
    [slMsg EXCEPT !.bytes = IF slLength <= Len(@) THEN SubSeq(@, 1, slLength)
                            ELSE @ \o Fill(slLength - Len(@), Uninit)]

\* Message::Write(aOffset, aLength, aBuf): only bytes inside the message are written
Write(wMsg, wOffset, wBuf) ==
    [wMsg EXCEPT !.bytes = [i \in 1 .. Len(@) |->
        IF i > wOffset /\ i <= wOffset + Len(wBuf) THEN wBuf[i - wOffset] ELSE @[i]]]

\* Message::Read(aOffset, aLength, aBuf): bytes past the end are not read
Read(rMsg, rOffset, rLength) ==
    [i \in 1 .. rLength |->
        IF rOffset + i <= Len(rMsg.bytes) THEN rMsg.bytes[rOffset + i] ELSE Uninit]

\* Message::CopyTo(aSourceOffset, aDestinationOffset, aLength, aMessage)
CopyTo(cSrc, cSrcOffset, cDstOffset, cLength, cDst) ==
    Write(cDst, cDstOffset, Read(cSrc, cSrcOffset, cLength))

\* Message::Prepend(aBuf, aLength)
Prepend(pMsg, pBuf) == [bytes |-> pBuf \o pMsg.bytes, offset |-> pMsg.offset]

SetOffset(soMsg, soOffset) == [soMsg EXCEPT !.offset = soOffset]

MoveOffset(moMsg, moDelta) == [moMsg EXCEPT !.offset = @ + moDelta]

\* -------------------------------------------------------------- checksum
\* Ip6::UpdateChecksum(checksum, val): 16-bit add with end-around carry
UpdateChecksum16(checksum, val) ==
    LET result == (checksum + val) % Uint16
    IN  (result + (IF result < checksum THEN 1 ELSE 0)) % Uint16

\* Ip6::UpdateChecksum(checksum, buf, len): bytes i = 0, 1, ... of the range
\* are the high and low halves of consecutive 16-bit words.  (A running sum is
\* never negative: the test on it makes TLC evaluate the sum at every step
\* instead of piling up unevaluated additions.)
RECURSIVE UpdateChecksumBytes(_, _, _)
UpdateChecksumBytes(sum, buf, i) ==
    IF sum < 0 \/ i > Len(buf) THEN sum
    ELSE UpdateChecksumBytes(
             UpdateChecksum16(sum, IF i % 2 = 1 THEN buf[i] * 256 ELSE buf[i]),
             buf, i + 1)

\* Message::UpdateChecksum(aChecksum, aOffset, aLength)
MessageUpdateChecksum(ucMsg, ucChecksum, ucOffset, ucLength) ==
    UpdateChecksumBytes(ucChecksum, SubSeq(ucMsg.bytes, ucOffset + 1, ucOffset + ucLength), 1)

\* Ip6::ComputePseudoheaderChecksum(src, dst, length, proto)
ComputePseudoheaderChecksum(src, dst, length, proto) ==
    UpdateChecksumBytes(
        UpdateChecksumBytes(
            UpdateChecksum16(UpdateChecksum16(0, length), proto), src, 1),
        dst, 1)

\* HostSwap16 on a little-endian host, and the bytes of a uint16_t in its memory
HostSwap16(v) == (v % 256) * 256 + (v \div 256)
MemoryOf16(v) == <<v % 256, v \div 256>>

\* the checksum written in host byte order, without HostSwap16
IcmpUpdateChecksum_NoSwap(aMessage, aChecksum) ==
    LET fold == MessageUpdateChecksum(aMessage, aChecksum, aMessage.offset,
                                      (GetLength(aMessage) - aMessage.offset) % Uint16)
        stored == IF fold # 65535 THEN 65535 - fold ELSE fold
    IN  Write(aMessage, aMessage.offset + GetChecksumOffset, MemoryOf16(stored))

\* Icmp::UpdateChecksum(aMessage, aChecksum): finalise an outbound message
IcmpUpdateChecksum(aMessage, aChecksum) ==
    LET fold == MessageUpdateChecksum(aMessage, aChecksum, aMessage.offset,
                                      (GetLength(aMessage) - aMessage.offset) % Uint16)
        stored == IF fold # 65535 THEN 65535 - fold ELSE fold
    IN  Write(aMessage, aMessage.offset + GetChecksumOffset, MemoryOf16(HostSwap16(stored)))

\* ----------------------------------------------------------- ICMP header
\* IcmpHeader::Init then the setters: type, code, checksum, id, sequence
IcmpHeaderBytes(type, code, id, seq) ==
    <<type, code, 0, 0, id \div 256, id % 256, seq \div 256, seq % 256>>

GetType(hdr) == hdr[1]


\* ----------------------------------------------------------------- state
VARIABLES
    mHandlers,          \* Icmp::mHandlers: head of the handler chain, or NULL
    mNext,              \* IcmpHandler::mNext of every handler object
    mEchoSequence,      \* Icmp::mEchoSequence (uint16_t)
    mEchoReplyHandler,  \* Icmp::mEchoReplyHandler, or NULL
    mEchoReplyContext,  \* Icmp::mEchoReplyContext
    mIsEchoEnabled,     \* Icmp::mIsEchoEnabled
    pc,                 \* "idle": between calls; "done": an entry point has run
    call,               \* what the entry point that has just run was given and did
    regOrder,           \* history: handlers in the order their registration succeeded
    calls               \* history: number of SendEchoRequest calls so far

engine == <<mHandlers, mNext, mEchoSequence, mEchoReplyHandler, mEchoReplyContext,
            mIsEchoEnabled>>
vars == <<mHandlers, mNext, mEchoSequence, mEchoReplyHandler, mEchoReplyContext,
          mIsEchoEnabled, pc, call, regOrder, calls>>

\* What a call did: its return value, the attempts to allocate, the messages
\* allocated and freed, the SendDatagram calls with their results, the handlers
\* and reply callbacks invoked, the inbound message's offset at return, and
\* the header built by SendEchoRequest.
NoCall ==
    [op |-> "none", msg |-> NewMessage, info |-> ZeroMessageInfo, arg |-> NULL,
     error |-> kThreadError_None, newMessageCalls |-> 0, allocated |-> 0, freed |-> 0,
     sent |-> << >>, notified |-> << >>, replied |-> << >>, offset |-> 0,
     header |-> << >>]

\* The datagram layer and the buffer pool, as one call experiences them
Envs ==
    {[alloc |-> FALSE, setLength |-> kThreadError_None, send |-> kThreadError_None],
     [alloc |-> TRUE, setLength |-> kThreadError_NoBufs, send |-> kThreadError_None],
     [alloc |-> TRUE, setLength |-> kThreadError_None, send |-> kThreadError_NoBufs],
     [alloc |-> TRUE, setLength |-> kThreadError_None, send |-> kThreadError_NoRoute],
     [alloc |-> TRUE, setLength |-> kThreadError_None, send |-> kThreadError_None]}

\* ---------------------------------------------------------------- inputs
\* payloads of every length up to n: distinct non-zero bytes 171, 172, ...
PayloadsUpTo(n) == {[i \in 1 .. len |-> 170 + i] : len \in 0 .. n}
Payloads == PayloadsUpTo(MaxPayload)
InboundTypes == {kTypeEchoRequest, kTypeEchoReply, kTypeDstUnreach, kTypePacketToBig}
InboundIds == {258}         \* 0x0102
InboundSequences == {772}   \* 0x0304
IpHeaderBytes == {96}       \* what lies in front of the ICMP header
Infos == {[peer |-> PeerAddr, sock |-> s, ifid |-> i] : s \in {UnicastAddr, MulticastAddr},
                                                      i \in {1, 2}}

\* what a correct peer puts on the wire: the header with a zero checksum, the
\* payload, then the checksum finalised over the pseudo-header seed
WireMessage(wireInfo, wireOffset, wireBody) ==
    IcmpUpdateChecksum(
        [bytes |-> Fill(wireOffset, CHOOSE b \in IpHeaderBytes : TRUE) \o wireBody,
         offset |-> wireOffset],
        ComputePseudoheaderChecksum(wireInfo.peer, wireInfo.sock, Len(wireBody), kProtoIcmp6))

ValidInbound(infos, offsets, payloads) ==
    {[msg |-> WireMessage(info, off, IcmpHeaderBytes(type, 0, id, seq) \o p),
      info |-> info] :
        info \in infos, off \in offsets, type \in InboundTypes, p \in payloads,
        id \in InboundIds, seq \in InboundSequences}

\* messages shorter than an ICMP header: cut-off valid messages, and 4- and
\* 6-byte messages whose checksum is right for their length
ShortInbound ==
    {[msg |-> [in.msg EXCEPT !.bytes = SubSeq(@, 1, in.msg.offset + n)], info |-> in.info] :
        in \in ValidInbound({i \in Infos : i.ifid = 1}, 0 .. MaxOffset, {<< >>}), n \in 0 .. 7}
    \cup
    {[msg |-> WireMessage(info, off, SubSeq(IcmpHeaderBytes(type, 0, id, 0), 1, n)),
      info |-> info] :
        info \in {i \in Infos : i.ifid = 1}, off \in 0 .. MaxOffset, type \in InboundTypes,
        n \in {4, 6},
        id \in InboundIds}

Inbound == ValidInbound(Infos, 0 .. MaxOffset, Payloads) \cup ShortInbound


\* ------------------------------------------------------ handler registry
\* the walk "for (cur = mHandlers; cur; cur = cur->mNext)"; n bounds the walk
\* so that the definition is total on a chain that closes on itself
RECURSIVE ChainFrom(_, _)
ChainFrom(cur, n) ==
    IF cur = NULL \/ n = 0 THEN << >> ELSE <<cur>> \o ChainFrom(mNext[cur], n - 1)

HandlerChain == ChainFrom(mHandlers, NumHandlers + 1)

\* a scan that looks at the head of the chain only
IsRegistered_HeadOnly(aHandler) == aHandler = mHandlers

\* the scan of RegisterCallbacks: is aHandler one of the chain's nodes?
IsRegistered(aHandler) == \E i \in 1 .. Len(HandlerChain) : HandlerChain[i] = aHandler

\* the registration without "ExitNow": a handler found in the chain is linked
\* in front of it again
RegisterCallbacks_Relink ==
    /\ pc = "idle"
    /\ \E aHandler \in Handlers :
         LET error == IF IsRegistered(aHandler) THEN kThreadError_Busy
                      ELSE kThreadError_None
         IN  /\ mNext' = [mNext EXCEPT ![aHandler] = mHandlers]
             /\ mHandlers' = aHandler
             /\ regOrder' = IF error = kThreadError_None THEN Append(regOrder, aHandler)
                            ELSE regOrder
             /\ call' = [NoCall EXCEPT !.op = "RegisterCallbacks", !.arg = aHandler,
                                       !.error = error]
    /\ pc' = "done"
    /\ UNCHANGED <<mEchoSequence, mEchoReplyHandler, mEchoReplyContext, mIsEchoEnabled, calls>>

RegisterCallbacks ==
    /\ pc = "idle"
    /\ \E aHandler \in Handlers :
         LET error == IF IsRegistered(aHandler) THEN kThreadError_Busy
                      ELSE kThreadError_None
         IN  /\ IF error = kThreadError_None
                THEN /\ mNext' = [mNext EXCEPT ![aHandler] = mHandlers]
                     /\ mHandlers' = aHandler
                     /\ regOrder' = Append(regOrder, aHandler)
                ELSE UNCHANGED <<mHandlers, mNext, regOrder>>
             /\ call' = [NoCall EXCEPT !.op = "RegisterCallbacks", !.arg = aHandler,
                                       !.error = error]
    /\ pc' = "done"
    /\ UNCHANGED <<mEchoSequence, mEchoReplyHandler, mEchoReplyContext, mIsEchoEnabled, calls>>

\* ---------------------------------------------------------------- setters
SetEchoReplyHandler ==
    /\ pc = "idle"
    /\ \E pair \in EchoReplyHandlers :
         LET aHandler == pair[1]
             aContext == pair[2]
         IN  /\ mEchoReplyHandler' = aHandler
             /\ mEchoReplyContext' = aContext
             /\ call' = [NoCall EXCEPT !.op = "SetEchoReplyHandler", !.arg = pair]
    /\ pc' = "done"
    /\ UNCHANGED <<mHandlers, mNext, mEchoSequence, mIsEchoEnabled, regOrder, calls>>

SetEchoEnabled ==
    /\ pc = "idle"
    /\ \E aEnabled \in BOOLEAN :
         /\ mIsEchoEnabled' = aEnabled
         /\ call' = [NoCall EXCEPT !.op = "SetEchoEnabled", !.arg = aEnabled]
    /\ pc' = "done"
    /\ UNCHANGED <<mHandlers, mNext, mEchoSequence, mEchoReplyHandler, mEchoReplyContext,
                   regOrder, calls>>

\* ------------------------------------------------------- SendEchoRequest
\* mEchoSequence++ on a uint16_t
NextEchoSequence(seq) == (seq + 1) % Uint16

\* the counter bumped before it is read (++mEchoSequence)
EchoRequestHeader_PreIncrement ==
    IcmpHeaderBytes(kTypeEchoRequest, 0, 1, NextEchoSequence(mEchoSequence))

\* the header stamped by SendEchoRequest; the counter is read before it is bumped
EchoRequestHeader == IcmpHeaderBytes(kTypeEchoRequest, 0, 1, mEchoSequence)

\* the outbound path gated by the enabled flag as the inbound echo paths are
SendEchoRequestCall_Gated(aMessage, aMessageInfo, env) ==
    LET icmpHeader == EchoRequestHeader
        base == [NoCall EXCEPT !.op = "SendEchoRequest", !.msg = aMessage,
                               !.info = aMessageInfo, !.header = icmpHeader]
        prepended == SetOffset(Prepend(aMessage, icmpHeader), 0)
    IN  IF ~mIsEchoEnabled THEN base
        ELSE IF env.setLength # kThreadError_None
        THEN [base EXCEPT !.error = env.setLength]
        ELSE [base EXCEPT !.error = env.send, !.offset = 0,
                          !.sent = <<[msg |-> prepended, info |-> aMessageInfo,
                                      proto |-> kProtoIcmp6, result |-> env.send]>>]

\* env.setLength stands for the result of Prepend, env.send for SendDatagram's
SendEchoRequestCall(aMessage, aMessageInfo, env) ==
    LET icmpHeader == EchoRequestHeader
        base == [NoCall EXCEPT !.op = "SendEchoRequest", !.msg = aMessage,
                               !.info = aMessageInfo, !.header = icmpHeader]
        prepended == SetOffset(Prepend(aMessage, icmpHeader), 0)
    IN  IF env.setLength # kThreadError_None
        THEN [base EXCEPT !.error = env.setLength]
        ELSE [base EXCEPT !.error = env.send, !.offset = 0,
                          !.sent = <<[msg |-> prepended, info |-> aMessageInfo,
                                      proto |-> kProtoIcmp6, result |-> env.send]>>]

SendEchoRequest(cap, payloads, infos) ==
    /\ pc = "idle"
    /\ calls < cap
    /\ \E p \in payloads, aMessageInfo \in infos, env \in Envs :
         /\ env.alloc
         /\ call' = SendEchoRequestCall([bytes |-> p, offset |-> 0], aMessageInfo, env)
    /\ mEchoSequence' = NextEchoSequence(mEchoSequence)
    /\ calls' = calls + 1
    /\ pc' = "done"
    /\ UNCHANGED <<mHandlers, mNext, mEchoReplyHandler, mEchoReplyContext, mIsEchoEnabled,
                   regOrder>>

\* -------------------------------------------------------------- exit path
\* "if (error != kThreadError_None && message != NULL) message->Free();"
\* the exit path without the test of the error: a message that was sent is freed too
FreeOnExit_Always(error, allocated) == allocated

FreeOnExit(error, allocated) == IF error # kThreadError_None /\ allocated = 1 THEN 1 ELSE 0

\* ------------------------------------------------------------- SendError
SendErrorCall(aDestination, aType, aCode, aHeader, env) ==
    LET base == [NoCall EXCEPT !.op = "SendError", !.arg = <<aDestination, aType, aCode, aHeader>>,
                               !.newMessageCalls = 1]
        sized == SetLength(NewMessage, SizeofIcmpHeader + SizeofIp6Header)
        withHeader == Write(sized, SizeofIcmpHeader, aHeader)
        message == Write(withHeader, 0, IcmpHeaderBytes(aType, aCode, 0, 0))
        messageInfo == [ZeroMessageInfo EXCEPT !.peer = aDestination]
    IN  IF ~env.alloc
        THEN [base EXCEPT !.error = kThreadError_NoBufs,
                          !.freed = FreeOnExit(kThreadError_NoBufs, 0)]
        ELSE IF env.setLength # kThreadError_None
        THEN [base EXCEPT !.error = env.setLength, !.allocated = 1,
                          !.freed = FreeOnExit(env.setLength, 1)]
        ELSE [base EXCEPT !.error = env.send, !.allocated = 1,
                          !.freed = FreeOnExit(env.send, 1),
                          !.sent = <<[msg |-> message, info |-> messageInfo,
                                      proto |-> kProtoIcmp6, result |-> env.send]>>]

OffendingHeader == Fill(SizeofIp6Header, CHOOSE b \in IpHeaderBytes : TRUE)

SendError ==
    /\ pc = "idle"
    /\ \E aDestination \in {PeerAddr, UnicastAddr},
          aType \in {kTypeDstUnreach, kTypePacketToBig}, env \in Envs :
         call' = SendErrorCall(aDestination, aType, kCodeDstUnreachNoRoute, OffendingHeader, env)
    /\ pc' = "done"
    /\ UNCHANGED <<mHandlers, mNext, mEchoSequence, mEchoReplyHandler, mEchoReplyContext,
                   mIsEchoEnabled, regOrder, calls>>


\* ------------------------------------------------------ HandleDstUnreach
\* the handlers called before the offset is moved
HandleDstUnreach_MoveLate(rec, aDstMessage, aDstInfo, aIcmpheader) ==
    [rec EXCEPT !.offset = aDstMessage.offset + SizeofIcmpHeader,
                !.notified = [i \in 1 .. Len(HandlerChain) |->
                                [handler |-> HandlerChain[i], offset |-> aDstMessage.offset,
                                 header |-> aIcmpheader]],
                !.error = kThreadError_None]

\* every handler of the chain is called once with the message moved past the header
HandleDstUnreach(rec, aDstMessage, aDstInfo, aIcmpheader) ==
    LET moved == MoveOffset(aDstMessage, SizeofIcmpHeader)
    IN  [rec EXCEPT !.offset = moved.offset,
                     !.notified = [i \in 1 .. Len(HandlerChain) |->
                                     [handler |-> HandlerChain[i], offset |-> moved.offset,
                                      header |-> aIcmpheader]],
                     !.error = kThreadError_None]

\* ----------------------------------------------------- HandleEchoRequest
\* icmp6Header.Init(); icmp6Header.SetType(kTypeEchoReply)
EchoReplyHeader == IcmpHeaderBytes(kTypeEchoReply, 0, 0, 0)

\* payloadLength = GetLength() - GetOffset() - GetDataOffset(), a uint16_t
EchoPayloadLength(aRequestMessage) ==
    (GetLength(aRequestMessage) - aRequestMessage.offset - GetDataOffset) % Uint16

\* SetLength, Write of the header, CopyTo of the request's data
EchoReplyMessage(aRequestMessage) ==
    LET payloadLength == EchoPayloadLength(aRequestMessage)
        sized == SetLength(NewMessage, (GetDataOffset + payloadLength) % Uint16)
        withHeader == Write(sized, 0, SubSeq(EchoReplyHeader, 1, GetDataOffset))
    IN  CopyTo(aRequestMessage, aRequestMessage.offset + GetDataOffset, GetDataOffset,
               payloadLength, withHeader)

\* the socket address copied whatever it is
EchoReplyInfo_CopyAll(aRequestInfo) ==
    [peer |-> aRequestInfo.peer, sock |-> aRequestInfo.sock, ifid |-> aRequestInfo.ifid]

\* memset, peer address, socket address unless multicast, interface id
EchoReplyInfo(aRequestInfo) ==
    [peer |-> aRequestInfo.peer,
     sock |-> IF ~IsMulticast(aRequestInfo.sock) THEN aRequestInfo.sock
              ELSE ZeroMessageInfo.sock,
     ifid |-> aRequestInfo.ifid]

\* "error" after SuccessOrExit(replyMessage->SetLength(...)) failed: the
\* result of SetLength is tested but not assigned
ErrorAfterSetLength(result) == kThreadError_None

\* a failed allocation reported to the dispatcher as NoBufs
HandleEchoRequest_AllocError(rec, aRequestMessage, aRequestInfo, reqEnv) ==
    IF ~mIsEchoEnabled THEN rec
    ELSE IF ~reqEnv.alloc
    THEN [rec EXCEPT !.newMessageCalls = 1, !.error = kThreadError_NoBufs,
                      !.freed = FreeOnExit(kThreadError_NoBufs, 0)]
    ELSE IF reqEnv.setLength # kThreadError_None
    THEN [rec EXCEPT !.newMessageCalls = 1, !.allocated = 1,
                      !.error = ErrorAfterSetLength(reqEnv.setLength),
                      !.freed = FreeOnExit(ErrorAfterSetLength(reqEnv.setLength), 1)]
    ELSE [rec EXCEPT !.newMessageCalls = 1, !.allocated = 1,
                      !.sent = <<[msg |-> EchoReplyMessage(aRequestMessage),
                                  info |-> EchoReplyInfo(aRequestInfo),
                                  proto |-> kProtoIcmp6, result |-> reqEnv.send]>>,
                      !.error = reqEnv.send,
                      !.freed = FreeOnExit(reqEnv.send, 1)]

HandleEchoRequest(rec, aRequestMessage, aRequestInfo, reqEnv) ==
    IF ~mIsEchoEnabled THEN rec
    ELSE IF ~reqEnv.alloc
    THEN [rec EXCEPT !.newMessageCalls = 1, !.freed = FreeOnExit(kThreadError_None, 0)]
    ELSE IF reqEnv.setLength # kThreadError_None
    THEN [rec EXCEPT !.newMessageCalls = 1, !.allocated = 1,
                      !.error = ErrorAfterSetLength(reqEnv.setLength),
                      !.freed = FreeOnExit(ErrorAfterSetLength(reqEnv.setLength), 1)]
    ELSE [rec EXCEPT !.newMessageCalls = 1, !.allocated = 1,
                      !.sent = <<[msg |-> EchoReplyMessage(aRequestMessage),
                                  info |-> EchoReplyInfo(aRequestInfo),
                                  proto |-> kProtoIcmp6, result |-> reqEnv.send]>>,
                      !.error = reqEnv.send,
                      !.freed = FreeOnExit(reqEnv.send, 1)]

\* ------------------------------------------------------- HandleEchoReply
\* the callback called whenever there is one
EchoReplyWanted_NoFlag == mEchoReplyHandler # NULL

EchoReplyWanted == mIsEchoEnabled /\ mEchoReplyHandler # NULL

\* the callback called without the test for a callback being there
HandleEchoReply_NoNullTest(rec, aReplyMessage, aReplyInfo) ==
    IF ~mIsEchoEnabled THEN rec
    ELSE [rec EXCEPT !.replied = <<[handler |-> mEchoReplyHandler,
                                     context |-> mEchoReplyContext,
                                     msg |-> aReplyMessage, info |-> aReplyInfo]>>]

HandleEchoReply(rec, aReplyMessage, aReplyInfo) ==
    IF ~EchoReplyWanted THEN rec
    ELSE [rec EXCEPT !.replied = <<[handler |-> mEchoReplyHandler,
                                     context |-> mEchoReplyContext,
                                     msg |-> aReplyMessage, info |-> aReplyInfo]>>]

\* --------------------------------------------------------- HandleMessage
\* a length floor of the 4 common header bytes instead of the whole header
LengthOk_Common(inLength) == inLength >= GetChecksumOffset + 2

LengthOk(inLength) == inLength >= GetDataOffset

ChecksumFold(inMessage, inInfo, inLength) ==
    MessageUpdateChecksum(inMessage,
        ComputePseudoheaderChecksum(inInfo.peer, inInfo.sock, inLength, kProtoIcmp6),
        inMessage.offset, inLength)

\* any non-zero fold taken for a good one
ChecksumOk_NonZero(checksum) == checksum # 0

ChecksumOk(checksum) == checksum = 65535

\* "VerifyOrExit(checksum == 0xffff, ;)": no error is assigned on this exit
ErrorOnBadChecksum == kThreadError_None

\* the switch without its default case: a type it does not know is handed
\* to the destination-unreachable fan-out
HandleMessageCall_NoDefault(aMessage, aMessageInfo, env) ==
    LET base == [NoCall EXCEPT !.op = "HandleMessage", !.msg = aMessage,
                               !.info = aMessageInfo, !.offset = aMessage.offset]
        payloadLength == (GetLength(aMessage) - aMessage.offset) % Uint16
        icmp6Header == Read(aMessage, aMessage.offset, SizeofIcmpHeader)
    IN  IF ~LengthOk(payloadLength) THEN [base EXCEPT !.error = kThreadError_Drop]
        ELSE IF ~ChecksumOk(ChecksumFold(aMessage, aMessageInfo, payloadLength))
        THEN [base EXCEPT !.error = ErrorOnBadChecksum]
        ELSE CASE GetType(icmp6Header) = kTypeEchoRequest ->
                      HandleEchoRequest(base, aMessage, aMessageInfo, env)
               [] GetType(icmp6Header) = kTypeEchoReply ->
                      HandleEchoReply(base, aMessage, aMessageInfo)
               [] OTHER ->
                      HandleDstUnreach(base, aMessage, aMessageInfo, icmp6Header)

HandleMessageCall(aMessage, aMessageInfo, env) ==
    LET base == [NoCall EXCEPT !.op = "HandleMessage", !.msg = aMessage,
                               !.info = aMessageInfo, !.offset = aMessage.offset]
        payloadLength == (GetLength(aMessage) - aMessage.offset) % Uint16
        icmp6Header == Read(aMessage, aMessage.offset, SizeofIcmpHeader)
    IN  IF ~LengthOk(payloadLength) THEN [base EXCEPT !.error = kThreadError_Drop]
        ELSE IF ~ChecksumOk(ChecksumFold(aMessage, aMessageInfo, payloadLength))
        THEN [base EXCEPT !.error = ErrorOnBadChecksum]
        ELSE CASE GetType(icmp6Header) = kTypeEchoRequest ->
                      HandleEchoRequest(base, aMessage, aMessageInfo, env)
               [] GetType(icmp6Header) = kTypeEchoReply ->
                      HandleEchoReply(base, aMessage, aMessageInfo)
               [] GetType(icmp6Header) = kTypeDstUnreach ->
                      HandleDstUnreach(base, aMessage, aMessageInfo, icmp6Header)
               [] OTHER -> base

\* a one-shot reply callback: the slot is cleared once the callback has run
HandleMessage_OneShot(inbound, envs) ==
    /\ pc = "idle"
    /\ \E in \in inbound, env \in envs :
         /\ call' = HandleMessageCall(in.msg, in.info, env)
         /\ mEchoReplyHandler' = IF call'.replied # << >> THEN NULL ELSE mEchoReplyHandler
    /\ pc' = "done"
    /\ UNCHANGED <<mHandlers, mNext, mEchoSequence, mEchoReplyContext,
                   mIsEchoEnabled, regOrder, calls>>

HandleMessage(inbound, envs) ==
    /\ pc = "idle"
    /\ \E in \in inbound, env \in envs :
         call' = HandleMessageCall(in.msg, in.info, env)
    /\ pc' = "done"
    /\ UNCHANGED <<mHandlers, mNext, mEchoSequence, mEchoReplyHandler, mEchoReplyContext,
                   mIsEchoEnabled, regOrder, calls>>

\* ---------------------------------------------------------------- Return
\* the caller has taken the result of the entry point
Return ==
    /\ pc = "done"
    /\ pc' = "idle"
    /\ call' = NoCall
    /\ UNCHANGED <<mHandlers, mNext, mEchoSequence, mEchoReplyHandler, mEchoReplyContext,
                   mIsEchoEnabled, regOrder, calls>>

\* --------------------------------------------------------- specifications
\* Icmp::Icmp
Init ==
    /\ mHandlers = NULL
    /\ mNext = [h \in Handlers |-> NULL]
    /\ mEchoSequence = 1
    /\ mEchoReplyHandler = NULL
    /\ mEchoReplyContext = NULL
    /\ mIsEchoEnabled = TRUE
    /\ pc = "idle"
    /\ call = NoCall
    /\ regOrder = << >>
    /\ calls = 0

HandleInbound == HandleMessage(Inbound, Envs)
SendEchoRequestAny == SendEchoRequest(MaxSends, Payloads, Infos)

Next ==
    \/ RegisterCallbacks
    \/ SetEchoReplyHandler
    \/ SetEchoEnabled
    \/ SendEchoRequestAny
    \/ SendError
    \/ HandleInbound
    \/ Return

Spec == Init /\ [][Next]_vars


\* ---------------------------------------------------- corrupted messages
\* bit b (0 = least significant) of a byte, flipped
FlipBit(byte, b) ==
    IF (byte \div (2 ^ b)) % 2 = 1 THEN byte - 2 ^ b ELSE byte + 2 ^ b

\* the message with bit b of the k-th byte of its ICMP part flipped
FlipMessageBit(fMsg, k, b) ==
    [fMsg EXCEPT !.bytes[fMsg.offset + k] = FlipBit(@, b)]

FlipBase ==
    ValidInbound({i \in Infos : i.ifid = 1}, {0}, PayloadsUpTo(MaxFlipPayload))

\* every single-bit flip of the ICMP part of every base message that the
\* receiver's own verification accepts
FlippedInbound ==
    UNION {{[msg |-> FlipMessageBit(in.msg, k, b), info |-> in.info] :
               k \in 1 .. (GetLength(in.msg) - in.msg.offset), b \in 0 .. 7} :
           in \in {v \in FlipBase :
                      ChecksumOk(ChecksumFold(v.msg, v.info, GetLength(v.msg) - v.msg.offset))}}

EnvOk == CHOOSE env \in Envs :
    env.alloc /\ env.setLength = kThreadError_None /\ env.send = kThreadError_None

HandleFlipped == HandleMessage(FlippedInbound, {EnvOk})

NextFlip ==
    \/ RegisterCallbacks
    \/ SetEchoReplyHandler
    \/ SetEchoEnabled
    \/ HandleFlipped
    \/ Return

SpecFlip == Init /\ [][NextFlip]_vars

\* ------------------------------------------------- the sequence counter
SendEchoRequestSeq == SendEchoRequest(MaxSeqCalls, {<<171>>}, {i \in Infos : i.ifid = 1})

NextSeq ==
    \/ SendEchoRequestSeq
    \/ Return

SpecSeq == Init /\ [][NextSeq]_vars

\* ----------------------------------------------- finalising the checksum
\* headers with a zero checksum field, all-zero ones among them
SumHeaders ==
    {IcmpHeaderBytes(type, 0, id, seq) :
        type \in InboundTypes \cup {0}, id \in InboundIds \cup {0},
        seq \in InboundSequences \cup {0}}

SumMessages ==
    {[bytes |-> Fill(off, CHOOSE b \in IpHeaderBytes : TRUE) \o hdr \o p, offset |-> off] :
        off \in 0 .. MaxOffset, hdr \in SumHeaders,
        p \in Payloads \cup {Fill(n, 0) : n \in 1 .. MaxPayload}}

\* the seeds of the pseudo-headers of the message, the two ends of the 16-bit
\* range, and the seed that brings the fold of the message to 0xffff
SumSeeds(raw) ==
    LET length == GetLength(raw) - raw.offset
    IN  {ComputePseudoheaderChecksum(i.peer, i.sock, length, kProtoIcmp6) : i \in Infos}
        \cup {0, 65535, 65535 - MessageUpdateChecksum(raw, 0, raw.offset, length)}

\* Icmp::UpdateChecksum as the datagram layer calls it on an outbound message;
\* call.arg keeps the seed and the message as it was given
UpdateChecksum ==
    /\ pc = "idle"
    /\ \E raw \in SumMessages :
         \E seed \in SumSeeds(raw) :
             call' = [NoCall EXCEPT !.op = "UpdateChecksum",
                                    !.msg = IcmpUpdateChecksum(raw, seed),
                                    !.arg = <<seed, raw>>,
                                    !.offset = raw.offset,
                                    !.error = kThreadError_None]
    /\ pc' = "done"
    /\ UNCHANGED <<mHandlers, mNext, mEchoSequence, mEchoReplyHandler, mEchoReplyContext,
                   mIsEchoEnabled, regOrder, calls>>

NextSum ==
    \/ UpdateChecksum
    \/ Return

SpecSum == Init /\ [][NextSum]_vars


\* ================================================================ claims
\* the inbound message of the HandleMessage call that has just run
Handled == pc = "done" /\ call.op = "HandleMessage"
InLength == GetLength(call.msg) - call.msg.offset
InFold == ChecksumFold(call.msg, call.info, InLength)
InValid == InLength >= SizeofIcmpHeader /\ InFold = 65535
InHeader == SubSeq(call.msg.bytes, call.msg.offset + 1, call.msg.offset + SizeofIcmpHeader)
InType == call.msg.bytes[call.msg.offset + 1]
InPayload == SubSeq(call.msg.bytes, call.msg.offset + SizeofIcmpHeader + 1, GetLength(call.msg))

NothingAllocatedOrSent == call.newMessageCalls = 0 /\ call.allocated = 0 /\ call.sent = << >>
NobodyCalled == call.notified = << >> /\ call.replied = << >>

\* an echo request was accepted and its reply went out
EchoAnswered ==
    /\ Handled /\ InValid /\ InType = kTypeEchoRequest
    /\ Len(call.sent) = 1 /\ call.sent[1].result = kThreadError_None

\* C1: the reply to an accepted echo request with payload P is the only message
\* handed to SendDatagram, has type EchoReply, payload P, and the request's
\* identifier and sequence.
C1_EchoMirror ==
    EchoAnswered =>
        LET reply == call.sent[1].msg.bytes
        IN  /\ Len(reply) = SizeofIcmpHeader + Len(InPayload)
            /\ reply[1] = kTypeEchoReply
            /\ SubSeq(reply, SizeofIcmpHeader + 1, Len(reply)) = InPayload
            /\ SubSeq(reply, 5, 8) = SubSeq(InHeader, 5, 8)

\* C2: a reply message that HandleEchoRequest allocated has, when the call
\* returns, been handed over by a successful send or been freed.
C2_ReplyNotLeaked ==
    (Handled /\ call.allocated = 1) =>
        \/ (Len(call.sent) = 1 /\ call.sent[1].result = kThreadError_None)
        \/ call.freed = 1

\* C3: an inbound message of at least 8 bytes whose fold is not 0xFFFF makes
\* HandleMessage return Drop.
C3_BadChecksumDrop ==
    (Handled /\ InLength >= SizeofIcmpHeader /\ InFold # 65535) =>
        call.error = kThreadError_Drop

\* C4: a single-bit flip of a checksum-valid message folds to something other
\* than 0xFFFF and is discarded: nothing allocated or sent, no reply callback,
\* no destination-unreachable handler.
C4_FlipDiscarded ==
    (Handled /\ [msg |-> call.msg, info |-> call.info] \in FlippedInbound) =>
        /\ InFold # 65535
        /\ NothingAllocatedOrSent
        /\ NobodyCalled

\* a flipped message met an engine that would have reacted to the original
C4_Witness ==
    /\ Handled /\ [msg |-> call.msg, info |-> call.info] \in FlippedInbound
    /\ mIsEchoEnabled /\ mEchoReplyHandler # NULL /\ Len(HandlerChain) = NumHandlers
    /\ InType = kTypeDstUnreach
    /\ Len(InPayload) = MaxFlipPayload

\* C5: an inbound message with fewer than 8 bytes from its offset is dropped
\* with the Drop error: no handler, no callback, no allocation, no send.
C5_ShortDropped ==
    (Handled /\ InLength < SizeofIcmpHeader) =>
        /\ call.error = kThreadError_Drop
        /\ NothingAllocatedOrSent
        /\ NobodyCalled
        /\ call.offset = call.msg.offset

\* a 4-byte echo request with a right checksum met an enabled engine with handlers
C5_Witness ==
    /\ Handled /\ InLength = 4 /\ InFold = 65535 /\ InType = kTypeEchoRequest
    /\ mIsEchoEnabled /\ mEchoReplyHandler # NULL /\ HandlerChain # << >>


\* C6: on a fresh engine the k-th call to SendEchoRequest stamps type
\* EchoRequest, identifier 1 and sequence k mod 65536, and that header is what
\* is prepended to the payload; the counter wraps from 65535 to 0.
C6_Sequence ==
    (pc = "done" /\ call.op = "SendEchoRequest") =>
        /\ call.header = IcmpHeaderBytes(kTypeEchoRequest, 0, 1, calls % Uint16)
        /\ mEchoSequence = (calls + 1) % Uint16
        /\ call.sent # << >> =>
               call.sent[1].msg.bytes = call.header \o call.msg.bytes

\* the 65536th call went out with sequence 0 and without error
C6_Witness ==
    /\ pc = "done" /\ call.op = "SendEchoRequest" /\ calls = Uint16
    /\ call.error = kThreadError_None
    /\ SubSeq(call.sent[1].msg.bytes, 5, 8) = <<0, 1, 0, 0>>

\* C7: registering a handler that is in the chain returns Busy and changes
\* neither the chain nor any next link, so the handler stays in it once;
\* registering one that is not in the chain succeeds and puts it in front.
C7_Register ==
    [][(pc = "idle" /\ call'.op = "RegisterCallbacks") =>
         IF call'.arg \in SeqRange(HandlerChain)
         THEN /\ call'.error = kThreadError_Busy
              /\ mHandlers' = mHandlers /\ mNext' = mNext
              /\ Cardinality({i \in 1 .. Len(HandlerChain') :
                                 HandlerChain'[i] = call'.arg}) = 1
         ELSE /\ call'.error = kThreadError_None
              /\ HandlerChain' = <<call'.arg>> \o HandlerChain]_vars

\* a handler that is in the chain, but not at its head, was registered again
C7_Witness ==
    /\ pc = "done" /\ call.op = "RegisterCallbacks" /\ call.error = kThreadError_Busy
    /\ Len(HandlerChain) = NumHandlers /\ call.arg # mHandlers

\* C8: while echo is disabled a checksum-valid echo request allocates and
\* sends nothing and returns success, and a checksum-valid echo reply does not
\* reach the reply callback; the flag is what SetEchoEnabled was last given.
C8_Disabled ==
    /\ [](Handled /\ InValid /\ ~mIsEchoEnabled =>
            /\ InType = kTypeEchoRequest =>
                   NothingAllocatedOrSent /\ call.error = kThreadError_None
            /\ InType = kTypeEchoReply => call.replied = << >>)
    /\ [][IF pc = "idle" /\ call'.op = "SetEchoEnabled"
          THEN mIsEchoEnabled' = call'.arg
          ELSE mIsEchoEnabled' = mIsEchoEnabled]_vars

\* an echo reply came in with echo disabled and a callback registered
C8_Witness ==
    /\ Handled /\ InValid /\ ~mIsEchoEnabled
    /\ InType = kTypeEchoReply /\ mEchoReplyHandler # NULL

\* C9: an echo reply goes to the request's peer address on the request's
\* interface; its local address is the request's unless that is multicast,
\* and then it is unspecified.
C9_ReplyRouting ==
    (Handled /\ call.sent # << >>) =>
        LET replyInfo == call.sent[1].info
        IN  /\ replyInfo.peer = call.info.peer
            /\ replyInfo.ifid = call.info.ifid
            /\ replyInfo.sock = IF IsMulticast(call.info.sock) THEN UnspecifiedAddr
                                ELSE call.info.sock

\* the reply to a request that was sent to a multicast address
C9_Witness ==
    /\ EchoAnswered /\ IsMulticast(call.info.sock) /\ call.info.ifid = 2
    /\ call.sent[1].info.sock = UnspecifiedAddr

\* C10: a checksum-valid destination-unreachable message reaches every
\* registered handler once, most recently registered first, each seeing the
\* offset moved on by 8, and HandleMessage returns success.
C10_DstUnreachFanout ==
    (Handled /\ InValid /\ InType = kTypeDstUnreach) =>
        /\ [i \in 1 .. Len(call.notified) |-> call.notified[i].handler] = Reverse(regOrder)
        /\ Cardinality({call.notified[i].handler : i \in 1 .. Len(call.notified)})
               = Len(call.notified)
        /\ \A i \in 1 .. Len(call.notified) :
               call.notified[i].offset = call.msg.offset + 8
        /\ call.offset = call.msg.offset + 8
        /\ call.error = kThreadError_None

\* every handler there is was notified of a message that had bytes in front
C10_Witness ==
    /\ Handled /\ InValid /\ InType = kTypeDstUnreach
    /\ Len(call.notified) = NumHandlers /\ call.msg.offset = MaxOffset
    /\ call.notified[1].handler # regOrder[1]

\* C11: a checksum-valid echo reply reaches the reply callback exactly once
\* when echo is enabled and a callback is registered, and not at all
\* otherwise; the callback and context are those SetEchoReplyHandler was last
\* given, and HandleMessage returns success either way.
C11_EchoReplyCallback ==
    /\ [](Handled /\ InValid /\ InType = kTypeEchoReply =>
            /\ call.error = kThreadError_None
            /\ call.notified = << >> /\ NothingAllocatedOrSent
            /\ IF mIsEchoEnabled /\ mEchoReplyHandler # NULL
               THEN call.replied = <<[handler |-> mEchoReplyHandler,
                                      context |-> mEchoReplyContext,
                                      msg |-> call.msg, info |-> call.info]>>
               ELSE call.replied = << >>)
    /\ [][IF pc = "idle" /\ call'.op = "SetEchoReplyHandler"
          THEN mEchoReplyHandler' = call'.arg[1] /\ mEchoReplyContext' = call'.arg[2]
          ELSE UNCHANGED <<mEchoReplyHandler, mEchoReplyContext>>]_vars

\* the callback set last, after an earlier one, was called with its context
C11_Witness ==
    /\ Handled /\ InValid /\ InType = kTypeEchoReply /\ calls = 0
    /\ Len(call.replied) = 1
    /\ call.replied[1].handler = 2 /\ call.replied[1].context = 1
    /\ call.msg.offset = MaxOffset

\* C12: a checksum-valid message whose type is none of echo request, echo
\* reply and destination unreachable is ignored: HandleMessage returns
\* success, calls no handler and no callback, allocates and sends nothing and
\* leaves the message offset where it was.
C12_UnknownTypeIgnored ==
    (Handled /\ InValid
        /\ InType \notin {kTypeEchoRequest, kTypeEchoReply, kTypeDstUnreach}) =>
        /\ call.error = kThreadError_None
        /\ NobodyCalled
        /\ NothingAllocatedOrSent /\ call.freed = 0
        /\ call.offset = call.msg.offset

\* a packet-too-big message came in while echo was enabled and every handler
\* and a reply callback were registered
C12_Witness ==
    /\ Handled /\ InValid /\ InType = kTypePacketToBig
    /\ Len(HandlerChain) = NumHandlers /\ mEchoReplyHandler # NULL /\ mIsEchoEnabled
    /\ InPayload # << >>

\* the fold of the message UpdateChecksum was given, over the seed it was given
SumLength == GetLength(call.msg) - call.msg.offset
RawFold == MessageUpdateChecksum(call.arg[2], call.arg[1], call.arg[2].offset, SumLength)
StoredChecksum == Read(call.msg, call.msg.offset + GetChecksumOffset, 2)

\* C13: once UpdateChecksum has stored its result in a message whose checksum
\* field was zero, the receiver's fold over the same seed and the same bytes
\* is 0xffff, whatever the seed and the payload, also when the fold before
\* storing was 0xffff (stored as it is) or 0; only the checksum field changed.
C13_ChecksumRoundTrip ==
    (pc = "done" /\ call.op = "UpdateChecksum") =>
        /\ ChecksumOk(MessageUpdateChecksum(call.msg, call.arg[1], call.msg.offset, SumLength))
        /\ call.msg = Write(call.arg[2], call.msg.offset + GetChecksumOffset, StoredChecksum)
        /\ RawFold = 65535 => StoredChecksum = <<255, 255>>
        /\ RawFold = 0 => StoredChecksum = <<255, 255>>

\* the fold of an echo request with a payload was 0xffff before it was stored
C13_Witness ==
    /\ pc = "done" /\ call.op = "UpdateChecksum"
    /\ RawFold = 65535 /\ StoredChecksum = <<255, 255>>
    /\ GetType(Read(call.msg, call.msg.offset, SizeofIcmpHeader)) = kTypeEchoRequest
    /\ SumLength > SizeofIcmpHeader /\ call.msg.offset = MaxOffset

\* C14: a SendEchoRequest that fails, in Prepend or in SendDatagram, leaves
\* the sequence counter as it was, so that the next request carries the
\* sequence number the failed one would have carried.
C14_FailedSendKeepsSequence ==
    [][(pc = "idle" /\ call'.op = "SendEchoRequest"
            /\ call'.error # kThreadError_None) =>
           mEchoSequence' = mEchoSequence]_vars

\* the arguments of the SendError call that has just run
ErrorSent == pc = "done" /\ call.op = "SendError"
ErrDestination == call.arg[1]
ErrType == call.arg[2]
ErrCode == call.arg[3]
ErrHeader == call.arg[4]

\* C15: SendError returns NoBufs and sends nothing when the allocation fails;
\* otherwise the message it sends is 8 + 40 bytes long, has the given type and
\* code, a zero checksum and the offending header at offset 8, and goes to the
\* destination as peer with an unspecified local address.  A failure of
\* SetLength or of SendDatagram is returned and the message freed once; a
\* message that was sent with success is not freed.
C15_SendError ==
    ErrorSent =>
        /\ call.newMessageCalls = 1
        /\ call.allocated = 0 =>
               call.error = kThreadError_NoBufs /\ call.sent = << >> /\ call.freed = 0
        /\ (call.allocated = 1 /\ call.sent = << >>) =>
               call.error = kThreadError_NoBufs /\ call.freed = 1
        /\ call.sent # << >> =>
               /\ call.allocated = 1 /\ Len(call.sent) = 1
               /\ GetLength(call.sent[1].msg) = 8 + SizeofIp6Header
               /\ call.sent[1].msg.bytes =
                      <<ErrType, ErrCode, 0, 0, 0, 0, 0, 0>> \o ErrHeader
               /\ call.sent[1].info.peer = ErrDestination
               /\ call.sent[1].info.sock = UnspecifiedAddr
               /\ call.sent[1].proto = kProtoIcmp6
               /\ call.error = call.sent[1].result
               /\ call.freed = IF call.sent[1].result = kThreadError_None THEN 0 ELSE 1

\* the datagram layer refused the error message, which was then freed
C15_Witness ==
    /\ ErrorSent /\ Len(call.sent) = 1
    /\ call.sent[1].result = kThreadError_NoRoute /\ call.error = kThreadError_NoRoute
    /\ call.freed = 1 /\ ErrType = kTypePacketToBig

\* the allocation of the reply to a valid echo request failed
ReplyAllocFailed ==
    /\ Handled /\ InValid /\ InType = kTypeEchoRequest /\ mIsEchoEnabled
    /\ call.newMessageCalls = 1 /\ call.allocated = 0

\* C16: when echo is enabled and no reply message can be allocated for a
\* checksum-valid echo request, HandleMessage returns success, sends nothing,
\* frees nothing and leaves the engine as it was.
C16_ReplyAllocFails ==
    /\ [](/\ ReplyAllocFailed =>
               /\ call.error = kThreadError_None
               /\ call.sent = << >> /\ call.freed = 0
               /\ NobodyCalled /\ call.offset = call.msg.offset
          /\ (Handled /\ InValid /\ InType = kTypeEchoRequest /\ mIsEchoEnabled) =>
               call.newMessageCalls = 1)
    /\ [][(call'.op = "HandleMessage" /\ call'.newMessageCalls = 1 /\ call'.allocated = 0)
              => UNCHANGED engine]_vars

\* no buffer for the reply to a request with a payload, sent to a multicast
\* address, while the engine was not in its initial state
C16_Witness ==
    /\ ReplyAllocFailed /\ InPayload # << >> /\ IsMulticast(call.info.sock)
    /\ mEchoSequence # 1 /\ mHandlers # NULL /\ mEchoReplyHandler # NULL

\* C17: the enabled flag gates the inbound echo paths only.  With echo
\* disabled SendEchoRequest still builds the echo-request header, takes a
\* sequence number and hands header and payload to SendDatagram, and a
\* checksum-valid destination-unreachable message still reaches every
\* registered handler.
C17_FlagGatesInboundOnly ==
    /\ [](~mIsEchoEnabled =>
            /\ (pc = "done" /\ call.op = "SendEchoRequest") =>
                   /\ call.header = IcmpHeaderBytes(kTypeEchoRequest, 0, 1,
                                                    (mEchoSequence - 1) % Uint16)
                   /\ call.error = kThreadError_None => Len(call.sent) = 1
                   /\ call.sent # << >> =>
                          /\ call.sent[1].msg.bytes = call.header \o call.msg.bytes
                          /\ call.sent[1].msg.offset = 0
                          /\ call.sent[1].info = call.info
                          /\ call.sent[1].proto = kProtoIcmp6
                          /\ call.error = call.sent[1].result
            /\ (Handled /\ InValid /\ InType = kTypeDstUnreach) =>
                   /\ Len(call.notified) = Len(HandlerChain)
                   /\ \A i \in 1 .. Len(HandlerChain) :
                          call.notified[i].handler = HandlerChain[i])
    /\ [][(pc = "idle" /\ call'.op = "SendEchoRequest" /\ ~mIsEchoEnabled) =>
              mEchoSequence' = NextEchoSequence(mEchoSequence)]_vars

\* an echo request with a payload went out while echo was disabled
C17_Witness ==
    /\ pc = "done" /\ call.op = "SendEchoRequest" /\ ~mIsEchoEnabled
    /\ call.error = kThreadError_None /\ Len(call.sent) = 1
    /\ Len(call.msg.bytes) = MaxPayload /\ mEchoSequence = 2

\* the walk from mHandlers ends at NULL
ChainEnds == HandlerChain = << >> \/ mNext[HandlerChain[Len(HandlerChain)]] = NULL

\* C18: the handler chain always ends, holds no handler twice and holds
\* exactly the handlers whose registration returned success; no step of the
\* engine takes a handler out of it.
C18_ChainWellFormed ==
    /\ [](/\ ChainEnds /\ Len(HandlerChain) <= NumHandlers
          /\ Cardinality(SeqRange(HandlerChain)) = Len(HandlerChain)
          /\ SeqRange(HandlerChain) = SeqRange(regOrder)
          /\ Len(regOrder) = Len(HandlerChain))
    /\ [][SeqRange(HandlerChain) \subseteq SeqRange(HandlerChain')]_vars

\* the head of a full chain was registered once more
C18_Witness ==
    /\ pc = "done" /\ call.op = "RegisterCallbacks" /\ call.error = kThreadError_Busy
    /\ call.arg = mHandlers /\ Len(HandlerChain) = NumHandlers
    /\ HandlerChain = Reverse(regOrder)

\* C19: HandleMessage leaves the engine as it found it, whatever the message
\* and the outcome: the sequence counter, the enabled flag, the reply
\* callback and its context, and the handler chain with every next link.
C19_HandleMessageFrame ==
    [][(pc = "idle" /\ call'.op = "HandleMessage") =>
           /\ mEchoSequence' = mEchoSequence
           /\ mIsEchoEnabled' = mIsEchoEnabled
           /\ mEchoReplyHandler' = mEchoReplyHandler
           /\ mEchoReplyContext' = mEchoReplyContext
           /\ mHandlers' = mHandlers /\ mNext' = mNext]_vars

\* the reply callback ran on an engine that had sent a request and held
\* every handler
C19_Witness ==
    /\ Handled /\ InValid /\ InType = kTypeEchoReply /\ Len(call.replied) = 1
    /\ mEchoSequence = 2 /\ Len(HandlerChain) = NumHandlers
    /\ mEchoReplyHandler = 1

====
